---- MODULE Spec2Model ----
(***************************************************************************)
(* Model of main.py: the in-memory registry of temporary inboxes, the      *)
(* table of active WebSocket connections, the two background tasks         *)
(* (cleanup_expired_inboxes, simulate_email_reception) and the request     *)
(* handlers.  Every coroutine runs on one asyncio event loop, so the code  *)
(* between two awaits is one atomic action; each await that can suspend    *)
(* (websocket.accept, websocket.receive_text, connection.send_json) splits *)
(* its coroutine into separate actions.                                    *)
(***************************************************************************)
EXTENDS Integers, Sequences, FiniteSets, TLC

\* ---------------------------------------------------------------- bounds
\* Spec: every handler and task, one inbox, several WebSocket connections.
\* SpecRegistry: the handlers and tasks that write the registry, several
\* inboxes, no WebSocket connection.
ChanInboxes == 1     \* inboxes created under Spec
ChanHandles == 2     \* WebSocket objects handed to the server under Spec
ChanMsgs == 1        \* emails the generator creates under Spec
RegInboxes == 2      \* inboxes created under SpecRegistry
RegMsgs == 2         \* emails the generator creates under SpecRegistry

Max(a, b) == IF a > b THEN a ELSE b

\* timedelta(hours=1); the clock counts half hours
TTL == 2

\* the clock stops one reading after the first inbox has expired
MaxTime == TTL + 1

Ids == 1..Max(RegInboxes, ChanInboxes)
Handles == 1..ChanHandles
Msgs == 1..Max(RegMsgs, ChanMsgs)

VARIABLES
    inboxes,             \* email_id -> [email_address, messages, expires_at]
    active_connections,  \* email_id -> WebSocket
    now,                 \* reading of datetime.now(timezone.utc)
    next_id,             \* next email_id uuid4 returns
    next_msg,            \* next email "id" uuid4 returns
    ws,                  \* per WebSocket: position of its websocket_endpoint call
    gen                  \* simulate_email_reception: position and locals

vars == <<inboxes, active_connections, now, next_id, next_msg, ws, gen>>

\* ------------------------------------------------------- dict operations
\* d[k] = v
DictSet(d, k, v) == [x \in (DOMAIN d) \cup {k} |-> IF x = k THEN v ELSE d[x]]

\* del d[k]
DictDel(d, k) == [x \in (DOMAIN d) \ {k} |-> d[x]]

Range(s) == {s[i] : i \in DOMAIN s}

Last(s) == s[Len(s)]

IsPrefix(s, t) == Len(s) <= Len(t) /\ \A i \in 1..Len(s) : s[i] = t[i]

\* ------------------------------------------------------------------ Init
Init ==
    /\ inboxes = <<>>
    /\ active_connections = <<>>
    /\ now = 0
    /\ next_id = 1
    /\ next_msg = 1
    /\ ws = [h \in Handles |-> [pc |-> "idle"]]
    /\ gen = [pc |-> "sleeping"]

\* ----------------------------------------------------------------- clock
Tick ==
    /\ now < MaxTime
    /\ now' = now + 1
    /\ UNCHANGED <<inboxes, active_connections, next_id, next_msg, ws, gen>>

\* ------------------------------------------------------ generate_new_email
\* any(d['email_address'] == email_address for d in inboxes.values())
address_taken_never(a) == FALSE

address_taken(a) == \E d \in DOMAIN inboxes : inboxes[d].email_address = a

\* datetime.now(timezone.utc) + timedelta(hours=1)
new_expiry_no_ttl(t) == t

new_expiry(t) == t + TTL

\* The while loop regenerates the prefix until no stored address equals it;
\* a is the prefix the loop ends with.
generate_new_email(a) ==
    /\ ~address_taken(a)
    /\ inboxes' = DictSet(inboxes, next_id,
                          [email_address |-> a, messages |-> <<>>,
                           expires_at |-> new_expiry(now)])
    /\ next_id' = next_id + 1
    /\ UNCHANGED <<active_connections, now, next_msg, ws, gen>>

\* ------------------------------------------------------- check_email_inbox
check_email_inbox_lazy(email_id) ==
    IF email_id \notin DOMAIN inboxes \/ inboxes[email_id].expires_at < now
    THEN [status |-> 404]
    ELSE [status |-> 200, inbox |-> inboxes[email_id].messages]

check_email_inbox(email_id) ==
    IF email_id \notin DOMAIN inboxes
    THEN [status |-> 404]
    ELSE [status |-> 200, inbox |-> inboxes[email_id].messages]

\* ------------------------------------------------------------ delete_email
\* connection = active_connections.pop(email_id); await connection.close()
\* close() marks the connection closed before it suspends; a RuntimeError
\* from a connection that is already closed is swallowed.
close_connection(w, h) == [w EXCEPT ![h].open = FALSE]

delete_email_keep_connection(email_id) ==
    /\ email_id \in DOMAIN inboxes
    /\ inboxes' = DictDel(inboxes, email_id)
    /\ UNCHANGED <<active_connections, ws, now, next_id, next_msg, gen>>

delete_email(email_id) ==
    /\ email_id \in DOMAIN inboxes
    /\ inboxes' = DictDel(inboxes, email_id)
    /\ IF email_id \in DOMAIN active_connections
       THEN /\ active_connections' = DictDel(active_connections, email_id)
            /\ ws' = close_connection(ws, active_connections[email_id])
       ELSE UNCHANGED <<active_connections, ws>>
    /\ UNCHANGED <<now, next_id, next_msg, gen>>

delete_email_status(email_id) ==
    IF email_id \notin DOMAIN inboxes THEN 404 ELSE 200

\* ------------------------------------------------------ refresh_email_timer
\* inboxes[email_id]["expires_at"] = datetime.now(timezone.utc) + timedelta(hours=1)
reset_timer_clearing(email_id) ==
    [inboxes EXCEPT ![email_id] =
         [email_address |-> @.email_address, messages |-> <<>>,
          expires_at |-> new_expiry(now)]]

reset_timer(email_id) ==
    [inboxes EXCEPT ![email_id].expires_at = new_expiry(now)]

refresh_email_timer(email_id) ==
    /\ email_id \in DOMAIN inboxes
    /\ inboxes' = reset_timer(email_id)
    /\ UNCHANGED <<active_connections, now, next_id, next_msg, ws, gen>>

refresh_email_timer_status(email_id) ==
    IF email_id \notin DOMAIN inboxes THEN 404 ELSE 200

\* ------------------------------------------------------- websocket_endpoint
\* The server hands each connection a new WebSocket object; they are
\* numbered in the order in which they arrive.
websocket_is_new(h) ==
    /\ ws[h].pc = "idle"
    /\ \A g \in Handles : g < h => ws[g].pc # "idle"

\* the connection is neither closed by the server nor left by its client
websocket_is_open(h) ==
    /\ ws[h].pc \in {"accepting", "receiving"}
    /\ ws[h].open

websocket_endpoint_unchecked(h, email_id) ==
    /\ websocket_is_new(h)
    /\ ws' = [ws EXCEPT ![h] = [pc |-> "accepting", email_id |-> email_id,
                                open |-> TRUE]]
    /\ UNCHANGED <<inboxes, active_connections, now, next_id, next_msg, gen>>

\* if email_id not in inboxes: await websocket.close(code=1008); return
\* otherwise the coroutine suspends in await websocket.accept()
websocket_endpoint(h, email_id) ==
    /\ websocket_is_new(h)
    /\ IF email_id \notin DOMAIN inboxes
       THEN ws' = [ws EXCEPT ![h] = [pc |-> "rejected",
                                     email_id |-> email_id]]
       ELSE ws' = [ws EXCEPT ![h] = [pc |-> "accepting", email_id |-> email_id,
                                     open |-> TRUE]]
    /\ UNCHANGED <<inboxes, active_connections, now, next_id, next_msg, gen>>

\* active_connections[email_id] = websocket
attach_keep_first(conns, email_id, h) ==
    IF email_id \in DOMAIN conns THEN conns ELSE DictSet(conns, email_id, h)

attach(conns, email_id, h) == DictSet(conns, email_id, h)

\* accept() returns: the handle is installed and the coroutine suspends in
\* await websocket.receive_text()
websocket_accepted(h) ==
    /\ ws[h].pc = "accepting"
    /\ active_connections' = attach(active_connections, ws[h].email_id, h)
    /\ ws' = [ws EXCEPT ![h].pc = "receiving"]
    /\ UNCHANGED <<inboxes, now, next_id, next_msg, gen>>

\* the client of an accepted connection goes away
peer_disconnects(h) ==
    /\ ws[h].pc = "receiving"
    /\ ws[h].open
    /\ ws' = [ws EXCEPT ![h].open = FALSE]
    /\ UNCHANGED <<inboxes, active_connections, now, next_id, next_msg, gen>>

\* finally: if email_id in active_connections: del active_connections[email_id]
detach(conns, email_id) ==
    IF email_id \in DOMAIN conns THEN DictDel(conns, email_id) ELSE conns

\* receive_text() raises WebSocketDisconnect and the finally block runs
websocket_disconnected(h) ==
    /\ ws[h].pc = "receiving"
    /\ ~ws[h].open
    /\ active_connections' = detach(active_connections, ws[h].email_id)
    /\ ws' = [ws EXCEPT ![h] = [pc |-> "done"]]
    /\ UNCHANGED <<inboxes, now, next_id, next_msg, gen>>

\* -------------------------------------------------- cleanup_expired_inboxes
\* data["expires_at"] < now
is_expired_or_due(expires_at, t) == expires_at <= t

is_expired(expires_at, t) == expires_at < t

expired_ids_one ==
    LET E == {email_id \in DOMAIN inboxes :
                  is_expired(inboxes[email_id].expires_at, now)}
    IN  IF E = {} THEN {}
        ELSE {CHOOSE email_id \in E : \A other \in E : email_id <= other}

expired_ids == {email_id \in DOMAIN inboxes :
                    is_expired(inboxes[email_id].expires_at, now)}

\* One sweep; there is no await between computing expired_ids and the last
\* del, and the connection of a deleted inbox is dropped without close().
cleanup_expired_inboxes ==
    /\ inboxes' = [email_id \in (DOMAIN inboxes) \ expired_ids |->
                       inboxes[email_id]]
    /\ active_connections' =
           [email_id \in (DOMAIN active_connections) \ expired_ids |->
                active_connections[email_id]]
    /\ UNCHANGED <<now, next_id, next_msg, ws, gen>>

\* ------------------------------------------------- simulate_email_reception
\* inbox_data["messages"].append(new_email)
append_replacing(messages, new_email) == <<new_email>>

append_at_head(messages, new_email) == <<new_email>> \o messages

append_message(messages, new_email) == Append(messages, new_email)

simulate_email_reception_unrecorded(target_email_id) ==
    /\ gen.pc = "sleeping"
    /\ target_email_id \in DOMAIN inboxes
    /\ next_msg' = next_msg + 1
    /\ IF target_email_id \in DOMAIN active_connections
       THEN /\ gen' = [pc |-> "sending",
                       target_email_id |-> target_email_id,
                       connection |-> active_connections[target_email_id],
                       new_email |-> next_msg]
            /\ UNCHANGED inboxes
       ELSE /\ gen' = gen
            /\ inboxes' = [inboxes EXCEPT ![target_email_id].messages =
                               append_message(@, next_msg)]
    /\ UNCHANGED <<active_connections, now, next_id, ws>>

simulate_email_reception_upsert(target_email_id) ==
    /\ gen.pc = "sleeping"
    /\ inboxes' =
           IF target_email_id \in DOMAIN inboxes
           THEN [inboxes EXCEPT ![target_email_id].messages =
                     append_message(@, next_msg)]
           ELSE DictSet(inboxes, target_email_id,
                        [email_address |-> target_email_id,
                         messages |-> <<next_msg>>,
                         expires_at |-> new_expiry(now)])
    /\ next_msg' = next_msg + 1
    /\ IF target_email_id \in DOMAIN active_connections
       THEN gen' = [pc |-> "sending",
                    target_email_id |-> target_email_id,
                    connection |-> active_connections[target_email_id],
                    new_email |-> next_msg]
       ELSE gen' = gen
    /\ UNCHANGED <<active_connections, now, next_id, ws>>

\* One cycle up to the await: pick a stored inbox, append the new email and,
\* if a connection is registered for the inbox, start sending on it.
simulate_email_reception(target_email_id) ==
    /\ gen.pc = "sleeping"
    /\ target_email_id \in DOMAIN inboxes
    /\ inboxes' = [inboxes EXCEPT ![target_email_id].messages =
                       append_message(@, next_msg)]
    /\ next_msg' = next_msg + 1
    /\ IF target_email_id \in DOMAIN active_connections
       THEN gen' = [pc |-> "sending",
                    target_email_id |-> target_email_id,
                    connection |-> active_connections[target_email_id],
                    new_email |-> next_msg]
       ELSE gen' = gen
    /\ UNCHANGED <<active_connections, now, next_id, ws>>

\* await connection.send_json(new_email) returns
send_json_returns ==
    /\ gen.pc = "sending"
    /\ gen' = [pc |-> "sleeping"]
    /\ UNCHANGED <<inboxes, active_connections, now, next_id, next_msg, ws>>

send_json_raises_rollback ==
    /\ gen.pc = "sending"
    /\ ~websocket_is_open(gen.connection)
    /\ gen' = [pc |-> "sleeping"]
    /\ active_connections' = detach(active_connections, gen.target_email_id)
    /\ inboxes' = [email_id \in DOMAIN inboxes |->
                      IF email_id = gen.target_email_id
                      THEN [inboxes[email_id] EXCEPT !.messages =
                                SubSeq(@, 1, Len(@) - 1)]
                      ELSE inboxes[email_id]]
    /\ UNCHANGED <<now, next_id, next_msg, ws>>

\* await connection.send_json(new_email) raises WebSocketDisconnect:
\* del active_connections[target_email_id]; a missing key raises KeyError
\* out of the while loop and ends the task.
send_json_raises ==
    /\ gen.pc = "sending"
    /\ ~websocket_is_open(gen.connection)
    /\ IF gen.target_email_id \in DOMAIN active_connections
       THEN /\ active_connections' =
                   DictDel(active_connections, gen.target_email_id)
            /\ gen' = [pc |-> "sleeping"]
       ELSE /\ gen' = [pc |-> "dead"]
            /\ UNCHANGED active_connections
    /\ UNCHANGED <<inboxes, now, next_id, next_msg, ws>>

\* ------------------------------------------------------------------ Next
\* The steps that write inboxes, now, next_id or next_msg; nInboxes is the
\* number of inboxes the clients create and of 8-hex-digit prefixes uuid4
\* draws from, nMsgs the number of cycles in which the generator finds an
\* inbox.
NextRegistry(nInboxes, nMsgs) ==
    \/ Tick
    \/ \E a \in 1..nInboxes : next_id <= nInboxes /\ generate_new_email(a)
    \/ \E email_id \in Ids : delete_email(email_id)
    \/ \E email_id \in Ids : refresh_email_timer(email_id)
    \/ cleanup_expired_inboxes
    \/ \E email_id \in Ids :
           next_msg <= nMsgs /\ simulate_email_reception(email_id)

\* The steps of the WebSocket handlers and of a pending send_json.
NextChannels ==
    \/ \E h \in Handles, email_id \in Ids : websocket_endpoint(h, email_id)
    \/ \E h \in Handles : websocket_accepted(h)
    \/ \E h \in Handles : peer_disconnects(h)
    \/ \E h \in Handles : websocket_disconnected(h)
    \/ send_json_returns
    \/ send_json_raises

Next == NextRegistry(ChanInboxes, ChanMsgs) \/ NextChannels

Spec == Init /\ [][Next]_vars

SpecRegistry == Init /\ [][NextRegistry(RegInboxes, RegMsgs)]_vars

\* What the event loop guarantees: the two tasks created at startup keep
\* being scheduled, and a handler is resumed once its await can complete.
\* Nothing is assumed of the clients (requests, connections, disconnects).
generator_step ==
    \/ \E email_id \in Ids :
           next_msg <= ChanMsgs /\ simulate_email_reception(email_id)
    \/ send_json_returns
    \/ send_json_raises

handler_step ==
    \E h \in Handles : websocket_accepted(h) \/ websocket_disconnected(h)

SpecFair ==
    /\ Spec
    /\ WF_vars(generator_step)
    /\ WF_vars(cleanup_expired_inboxes)
    /\ WF_vars(handler_step)
    /\ WF_vars(Tick)

\* ================================================================ claims

\* C1: there is at most one canonical handle per email_id and it is the one
\* attached last: a handler that installs its WebSocket leaves exactly that
\* WebSocket under its email_id, an entry of active_connections changes to
\* another WebSocket only by such an installation, and a push that starts
\* is sent to the WebSocket that is canonical at that moment.
CanonicalHandleIsLastAttached ==
    [][/\ \A h \in Handles :
              (ws[h].pc = "accepting" /\ ws'[h].pc = "receiving")
                  => active_connections'[ws[h].email_id] = h
       /\ \A email_id \in DOMAIN active_connections' :
              (\/ email_id \notin DOMAIN active_connections
               \/ active_connections'[email_id] # active_connections[email_id])
                  => \E h \in Handles :
                         /\ ws[h].pc = "accepting"
                         /\ ws'[h].pc = "receiving"
                         /\ ws[h].email_id = email_id
                         /\ active_connections'[email_id] = h
       /\ (gen.pc = "sleeping" /\ gen'.pc = "sending")
              => /\ gen'.target_email_id \in DOMAIN active_connections
                 /\ gen'.connection = active_connections[gen'.target_email_id]
      ]_vars

\* Two handlers serve the same email_id, the second one is canonical and a
\* push to it is under way.
SupersededWitness ==
    \E h1, h2 \in Handles :
        /\ h1 # h2
        /\ ws[h1].pc = "receiving"
        /\ ws[h2].pc = "receiving"
        /\ ws[h1].email_id = ws[h2].email_id
        /\ ws[h2].email_id \in DOMAIN active_connections
        /\ active_connections[ws[h2].email_id] = h2
        /\ gen.pc = "sending"
        /\ gen.connection = h2

\* C2: no handler installs its WebSocket for an email_id that is absent from
\* inboxes at the moment of installation.
AttachOnlyToLiveInbox ==
    [][\A h \in Handles :
           (ws[h].pc = "accepting" /\ ws'[h].pc = "receiving")
               => ws[h].email_id \in DOMAIN inboxes']_vars

\* C3: the cleanup of a handler whose WebSocket is no longer the canonical
\* one for its email_id (of a stored inbox) leaves active_connections as it
\* is.
DetachOfSupersededIsNoOp ==
    [][\A h \in Handles :
           (/\ ws[h].pc = "receiving"
            /\ ws'[h].pc = "done"
            /\ ws[h].email_id \in DOMAIN inboxes
            /\ ws[h].email_id \in DOMAIN active_connections
            /\ active_connections[ws[h].email_id] # h)
               => active_connections' = active_connections]_vars

\* C4: when the push of new_email raises, new_email is still among the
\* messages check_email_inbox returns for the target (unless the inbox is
\* gone), and no step ever takes a message out of a stored inbox.
FailedPushKeepsMessage ==
    [][/\ \A email_id \in Ids, new_email \in Msgs :
              (/\ send_json_raises
               /\ gen.target_email_id = email_id
               /\ gen.new_email = new_email
               /\ email_id \in DOMAIN inboxes')
                  => /\ check_email_inbox(email_id)'.status = 200
                     /\ new_email \in Range(check_email_inbox(email_id)'.inbox)
       /\ \A email_id \in (DOMAIN inboxes) \cap (DOMAIN inboxes') :
              Range(inboxes[email_id].messages)
                  \subseteq Range(inboxes'[email_id].messages)
      ]_vars

\* A push has raised (the generator task ended on it) and the email it was
\* pushing is in the stored inbox.
FailedPushWitness ==
    /\ gen.pc = "dead"
    /\ \E email_id \in DOMAIN inboxes :
           (next_msg - 1) \in Range(check_email_inbox(email_id).inbox)

\* C5: right after a generator cycle appended new_email to a stored inbox,
\* check_email_inbox returns a list whose last element is new_email.
AppendThenGetReturnsLast ==
    [][\A email_id \in Ids :
           simulate_email_reception(email_id)
               => /\ check_email_inbox(email_id)'.status = 200
                  /\ Last(check_email_inbox(email_id)'.inbox) = next_msg
      ]_vars

\* An inbox holds two emails and the one created last is its last element.
AppendWitness ==
    \E email_id \in DOMAIN inboxes :
        /\ Len(inboxes[email_id].messages) >= 2
        /\ Last(inboxes[email_id].messages) = next_msg - 1

\* C6: the addresses of the stored inboxes are pairwise distinct.
AddressesPairwiseDistinct ==
    \A i, j \in DOMAIN inboxes :
        i # j => inboxes[i].email_address # inboxes[j].email_address

\* Two inboxes are stored at once.
TwoInboxesWitness == Cardinality(DOMAIN inboxes) >= 2

\* an email_id that uuid4 has handed out and that is no longer stored
removed(email_id) == email_id < next_id /\ email_id \notin DOMAIN inboxes

\* C7: a removed email_id never comes back; check_email_inbox,
\* refresh_email_timer and delete_email answer 404 for it and change
\* nothing, a WebSocket that asks for it is rejected, and the generator
\* never appends to it.
RemovedStaysRemoved ==
    [][\A email_id \in Ids :
           removed(email_id)
               => /\ removed(email_id)'
                  /\ check_email_inbox(email_id).status = 404
                  /\ refresh_email_timer_status(email_id) = 404
                  /\ delete_email_status(email_id) = 404
                  /\ ~refresh_email_timer(email_id)
                  /\ ~delete_email(email_id)
                  /\ ~simulate_email_reception(email_id)
                  /\ \A h \in Handles :
                         (ws[h].pc = "idle" /\ ws'[h].pc # "idle"
                          /\ ws'[h].email_id = email_id)
                             => ws'[h].pc = "rejected"
      ]_vars

\* An inbox was stored when the first WebSocket asked for it and was gone
\* when the second one did.
RejectedAfterRemovalWitness ==
    \E h1, h2 \in Handles :
        /\ h1 < h2
        /\ ws[h1].pc = "receiving"
        /\ ws[h2].pc = "rejected"
        /\ ws[h1].email_id = ws[h2].email_id
        /\ removed(ws[h2].email_id)

\* C8, as stated: a refresh, whenever it is called on a stored inbox, makes
\* expires_at strictly larger than it was.
RefreshStrictlyIncreases ==
    \A email_id \in DOMAIN inboxes :
        reset_timer(email_id)[email_id].expires_at
            > inboxes[email_id].expires_at

\* C8, amended: a refresh, whenever it is called on a stored inbox, sets
\* expires_at to the call time plus TTL; that is strictly larger than the
\* old value when the clock has advanced since the old value was set, and
\* equal to it at the same clock reading.
RefreshSetsCallTimePlusTTL ==
    \A email_id \in DOMAIN inboxes :
        LET old == inboxes[email_id].expires_at
            new == reset_timer(email_id)[email_id].expires_at
        IN  /\ refresh_email_timer_status(email_id) = 200
            /\ new = now + TTL
            /\ now > old - TTL => new > old
            /\ now = old - TTL => new = old

\* The inbox created first expires after the one created second: it has
\* been refreshed at a later clock reading.
RefreshedLaterWitness ==
    /\ {1, 2} \subseteq DOMAIN inboxes
    /\ inboxes[1].expires_at > inboxes[2].expires_at

\* C9: a sweep leaves every inbox whose expires_at is not before the sweep's
\* now in the registry, unchanged.
SweepKeepsUnexpired ==
    [][cleanup_expired_inboxes
           => \A email_id \in DOMAIN inboxes :
                  inboxes[email_id].expires_at >= now
                      => /\ email_id \in DOMAIN inboxes'
                         /\ inboxes'[email_id] = inboxes[email_id]
      ]_vars

\* A sweep has something to remove and something to keep: the inbox created
\* first has been refreshed and is at the very reading at which it expires,
\* the one created second has expired.
RefreshedSurvivesWitness ==
    /\ {1, 2} \subseteq DOMAIN inboxes
    /\ inboxes[1].expires_at = now
    /\ inboxes[2].expires_at < now

\* C10: the generator task never ends.
GeneratorNeverTerminates == gen.pc # "dead"

\* C11: a sweep that evicts an inbox with a registered connection leaves
\* that connection closed (or closing), not open.
SweepClosesEvictedChannel ==
    [][cleanup_expired_inboxes
           => \A email_id \in expired_ids, h \in Handles :
                  (/\ email_id \in DOMAIN active_connections
                   /\ active_connections[email_id] = h)
                      => ~websocket_is_open(h)'
      ]_vars

\* C12: a push that raises removes from active_connections only the WebSocket
\* it was sent on; another WebSocket registered meanwhile for the target (a
\* stored inbox) stays registered.
FailedPushDetachesOnlyItsHandle ==
    [][send_json_raises
           => ((/\ gen.target_email_id \in DOMAIN inboxes
                /\ gen.target_email_id \in DOMAIN active_connections
                /\ active_connections[gen.target_email_id] # gen.connection)
                   => active_connections' = active_connections)
      ]_vars

\* a WebSocket is registered for an email_id that is not stored
stale_handle(email_id, h) ==
    /\ email_id \notin DOMAIN inboxes
    /\ email_id \in DOMAIN active_connections
    /\ active_connections[email_id] = h

\* C13: a WebSocket registered for an email_id that is not stored is
\* eventually taken out of active_connections, whether or not its client
\* ever disconnects.
StaleHandleEventuallyDetached ==
    \A email_id \in Ids, h \in Handles :
        stale_handle(email_id, h) ~> ~stale_handle(email_id, h)

\* C14: while a send_json is pending, a refresh and a delete of every stored
\* inbox can take effect and the generator can append an email to every
\* stored inbox.
PendingPushStallsNothing ==
    gen.pc = "sending"
        => \A email_id \in DOMAIN inboxes :
               /\ ENABLED refresh_email_timer(email_id)
               /\ ENABLED delete_email(email_id)
               /\ ENABLED simulate_email_reception(email_id)

\* C15: a delete of a stored inbox removes, in one step, the inbox and the
\* WebSocket registered for it, and that WebSocket is closed; a delete of an
\* email_id that is not stored answers 404 and is no step.
DeleteRemovesInboxAndHandle ==
    [][\A email_id \in Ids :
           /\ delete_email(email_id)
                  => /\ delete_email_status(email_id) = 200
                     /\ email_id \notin DOMAIN inboxes'
                     /\ email_id \notin DOMAIN active_connections'
                     /\ \A h \in Handles :
                            (/\ email_id \in DOMAIN active_connections
                             /\ active_connections[email_id] = h)
                                => /\ h \notin Range(active_connections')
                                   /\ ~websocket_is_open(h)'
           /\ email_id \notin DOMAIN inboxes
                  => /\ delete_email_status(email_id) = 404
                     /\ ~delete_email(email_id)
      ]_vars

\* A delete has removed an inbox together with its registered WebSocket: the
\* generator has not run and the clock has not moved, so only delete_email
\* can have emptied both dicts and closed the connection.
DeletedWithHandleWitness ==
    \E h \in Handles :
        /\ ws[h].pc = "receiving"
        /\ ~ws[h].open
        /\ ws[h].email_id \notin DOMAIN inboxes
        /\ active_connections = <<>>
        /\ now = 0
        /\ next_msg = 1

\* C16: a sweep removes exactly the inboxes whose expires_at is before now,
\* leaves the others as they were, and no inbox left has an expires_at
\* before now.
SweepRemovesExactlyExpired ==
    [][cleanup_expired_inboxes
           => /\ DOMAIN inboxes' =
                     {email_id \in DOMAIN inboxes :
                          ~(inboxes[email_id].expires_at < now)}
              /\ \A email_id \in DOMAIN inboxes' :
                     /\ inboxes'[email_id] = inboxes[email_id]
                     /\ ~(inboxes'[email_id].expires_at < now')
      ]_vars

\* A sweep has two inboxes to remove at once.
TwoExpiredWitness ==
    /\ {1, 2} \subseteq DOMAIN inboxes
    /\ inboxes[1].expires_at < now
    /\ inboxes[2].expires_at < now

\* C17: in the step in which the generator starts a send_json of an email,
\* that email is already the last message of the target inbox.
PushStartsAfterAppend ==
    [][(gen.pc = "sleeping" /\ gen'.pc = "sending")
           => /\ gen'.target_email_id \in DOMAIN inboxes'
              /\ inboxes'[gen'.target_email_id].messages # <<>>
              /\ Last(inboxes'[gen'.target_email_id].messages)
                     = gen'.new_email
      ]_vars

\* A send_json is pending and its email is stored in the target inbox.
PushPendingWitness ==
    /\ gen.pc = "sending"
    /\ gen.target_email_id \in DOMAIN inboxes
    /\ gen.new_email \in Range(inboxes[gen.target_email_id].messages)

GeneratorNeverCreatesInbox ==
    [][/\ (gen' # gen \/ next_msg' # next_msg)
              => DOMAIN inboxes' = DOMAIN inboxes
       /\ \A email_id \in Ids :
              simulate_email_reception(email_id)
                  => email_id \in DOMAIN inboxes
       /\ (inboxes = <<>> /\ gen.pc = "sleeping")
              => (gen' = gen /\ next_msg' = next_msg)
      ]_vars

\* The generator has run a cycle, and the inbox it appended to has been
\* removed since: the registry is empty with the generator about to start
\* another cycle.
EmptyAfterCycleWitness ==
    /\ inboxes = <<>>
    /\ gen.pc = "sleeping"
    /\ next_msg > 1

\* C20: an inbox whose expires_at is before now and that no sweep has removed
\* yet is served by check_email_inbox, refresh_email_timer and
\* websocket_endpoint as any stored inbox, and a refresh takes it out of the
\* set the next sweep removes.
ExpiredUnsweptStillServed ==
    [][\A email_id \in DOMAIN inboxes :
           inboxes[email_id].expires_at < now
               => /\ check_email_inbox(email_id).status = 200
                  /\ refresh_email_timer_status(email_id) = 200
                  /\ \A h \in Handles :
                         websocket_endpoint(h, email_id)
                             => ws'[h].pc = "accepting"
                  /\ refresh_email_timer(email_id)
                         => /\ inboxes'[email_id].expires_at = now + TTL
                            /\ email_id \notin expired_ids'
      ]_vars

\* An inbox whose expires_at is before now is stored and a websocket_endpoint
\* call for it is suspended in accept().
ExpiredServedWitness ==
    \E email_id \in DOMAIN inboxes, h \in Handles :
        /\ inboxes[email_id].expires_at < now
        /\ ws[h].pc = "accepting"
        /\ ws[h].email_id = email_id

====
